---- MODULE Spec2Model ----
(***************************************************************************)
(* The nix-index file database: the Writer that creates it, Reader.open,   *)
(* Query.run and the ReaderIter that streams (StorePath, FileTreeEntry)    *)
(* matches out of the decoded blocks (src/src/database.rs).                *)
(*                                                                         *)
(* Buffers are sequences of bytes (naturals); offsets are the 0-based      *)
(* offsets of the Rust code, so buf[i] of the code is buf[i + 1] here.     *)
(***************************************************************************)
EXTENDS Integers, Sequences, FiniteSets, Bags, TLC

VARIABLES
    writer,                \* Writer.writer: "Some" | "None" ("Absent": never created)
    wlife,                 \* where the Writer value is in its life
    finishCalls,           \* how often zstd::Encoder::finish has run on this Writer's encoder
    disk,                  \* the database file: header bytes, record stream, frame state
    wresult,               \* what the latest Writer operation returned
    addCalls,              \* how many add calls were made
    adds,                  \* the add calls that returned Ok, in order
    reader,                \* result of Reader::open, "unopened" before
    input,                 \* records the frcode decoder has not yet returned
    consumed,              \* how many records the decoder has returned so far
    cuts,                  \* the values `consumed` had at the end of each decoded block
    query,                 \* the Query that was run (ReaderIter's patterns), "none" before
    found,                 \* ReaderIter.found
    found_without_package, \* ReaderIter.found_without_package
    yielded,               \* the items next() has returned so far, None excluded
    last,                  \* what the latest next() returned
    single,                \* what the same query, and the query without its package
                           \* filters, yield when the stream is decoded as one block
    status,                \* "idle" | "running" | "panicked"
    packagesQuery,         \* the PackagesQuery of nixpkgs.rs: parser, child, items returned
    call                   \* a function exercised on its own: its arguments and results

vars == <<writer, wlife, finishCalls, disk, wresult, addCalls, adds, reader, input, consumed, cuts,
          query, found, found_without_package, yielded, last, single, status,
          packagesQuery, call>>

(***************************************************************************)
(* Bytes.                                                                  *)
(***************************************************************************)
\* '\0', the separator of METADATA and PATH, and the literal that replaces ^
NUL == 0
\* '\n', the line terminator of the matchers and the sentinel ending every record
NL == 10
\* 'p', the header tag of package records
CH_p == 112

None == [tag |-> "None"]

Min(S) == CHOOSE x \in S : \A y \in S : x <= y

\* buf[from..to) of the code
Slice(buf, from, to) == SubSeq(buf, from + 1, to)

\* memchr(needle, &buf[from..]): offset relative to `from`, or None
memchr(needle, buf, from) ==
    LET hits == {i \in from .. Len(buf) - 1 : buf[i + 1] = needle}
    IN  IF hits = {} THEN None ELSE [tag |-> "Some", v |-> Min(hits) - from]

\* memrchr(needle, &buf[..to]): offset of the last occurrence before `to`, or None
memrchr(needle, buf, to) ==
    LET hits == {i \in 0 .. to - 1 : buf[i + 1] = needle}
    IN  IF hits = {} THEN None
        ELSE [tag |-> "Some", v |-> CHOOSE x \in hits : \A y \in hits : y <= x]

(***************************************************************************)
(* Regular expressions: the regex_syntax AST nodes Query.run looks at, and *)
(* what the compiled regex matches.                                        *)
(***************************************************************************)
Lit(c) == [kind |-> "Literal", c |-> c]
Dot == [kind |-> "Dot"]
StartLine == [kind |-> "Assertion", akind |-> "StartLine"]
EndLine == [kind |-> "Assertion", akind |-> "EndLine"]
Concat(asts) == [kind |-> "Concat", asts |-> asts]
Alternation(asts) == [kind |-> "Alternation", asts |-> asts]
Repetition(ast) == [kind |-> "Repetition", ast |-> ast]
Group(ast) == [kind |-> "Group", ast |-> ast]

RECURSIVE MatchEnds(_, _, _, _)
RECURSIVE ConcatEnds(_, _, _, _, _)
RECURSIVE StarEnds(_, _, _, _, _)

\* the offsets j such that `ast` matches s[i..j); multi_line decides what ^ and $ mean
MatchEnds(ast, s, i, multi_line) ==
    CASE ast.kind = "Literal" ->
           IF i < Len(s) /\ s[i + 1] = ast.c THEN {i + 1} ELSE {}
      [] ast.kind = "Dot" ->
           IF i < Len(s) /\ s[i + 1] # NL THEN {i + 1} ELSE {}
      [] ast.kind = "Assertion" ->
           IF ast.akind = "StartLine"
           THEN IF i = 0 \/ (multi_line /\ i > 0 /\ s[i] = NL) THEN {i} ELSE {}
           ELSE IF i = Len(s) \/ (multi_line /\ i < Len(s) /\ s[i + 1] = NL) THEN {i} ELSE {}
      [] ast.kind = "Concat" -> ConcatEnds(ast.asts, 1, s, {i}, multi_line)
      [] ast.kind = "Alternation" ->
           UNION {MatchEnds(ast.asts[k], s, i, multi_line) : k \in 1 .. Len(ast.asts)}
      [] ast.kind = "Repetition" -> StarEnds(ast.ast, s, {i}, {i}, multi_line)
      [] ast.kind = "Group" -> MatchEnds(ast.ast, s, i, multi_line)

ConcatEnds(asts, k, s, starts, multi_line) ==
    IF k > Len(asts) \/ starts = {} THEN starts
    ELSE ConcatEnds(asts, k + 1, s,
                    UNION {MatchEnds(asts[k], s, i, multi_line) : i \in starts}, multi_line)

StarEnds(ast, s, frontier, acc, multi_line) ==
    LET more == UNION {MatchEnds(ast, s, i, multi_line) : i \in frontier} \ acc
    IN  IF more = {} THEN acc ELSE StarEnds(ast, s, more, acc \cup more, multi_line)

\* the end offsets of all matches of `ast` in s
AllEnds(ast, s, multi_line) == UNION {MatchEnds(ast, s, i, multi_line) : i \in 0 .. Len(s)}

\* Regex::is_match
RegexIsMatch(ast, s, multi_line) == AllEnds(ast, s, multi_line) # {}

\* Regex::shortest_match: the end of a match, reported as early as one is known
ShortestMatch(ast, s, multi_line) ==
    LET ends == AllEnds(ast, s, multi_line)
    IN  IF ends = {} THEN None ELSE [tag |-> "Some", v |-> Min(ends)]

(***************************************************************************)
(* The line-oriented matcher of the grep crate, built by                   *)
(* RegexMatcherBuilder with line_terminator(Some(b'\n')).multi_line(true). *)
(* When the pattern has a required literal the matcher owns a fast line    *)
(* regex that only looks for that literal and reports a Candidate; else it *)
(* reports a Confirmed shortest match of the pattern itself.               *)
(***************************************************************************)
FastLineRegex(ast) ==
    CASE ast.kind = "Literal" -> ast
      [] ast.kind = "Concat" ->
           LET lits == {k \in 1 .. Len(ast.asts) : ast.asts[k].kind = "Literal"}
           IN  IF lits = {} THEN None ELSE ast.asts[Min(lits)]
      [] OTHER -> None

RegexMatcher(ast) == [ast |-> ast, fast_line_regex |-> FastLineRegex(ast)]

\* Matcher::find_candidate_line
find_candidate_line(matcher, haystack) ==
    IF matcher.fast_line_regex # None
    THEN LET m == ShortestMatch(matcher.fast_line_regex, haystack, TRUE)
         IN  IF m = None THEN None ELSE [tag |-> "Some", kind |-> "Candidate", pos |-> m.v]
    ELSE LET m == ShortestMatch(matcher.ast, haystack, TRUE)
         IN  IF m = None THEN None ELSE [tag |-> "Some", kind |-> "Confirmed", pos |-> m.v]

\* Matcher::is_match
is_match(matcher, haystack) == RegexIsMatch(matcher.ast, haystack, TRUE)

\* the line around `pos`, accepted if the match was confirmed or the isolated
\* line matches; is_some(line) is what the loop of next_matching_line returns,
\* None standing for `continue` at line_end
LineAt(matcher, buf, pos, confirmed, line_start, line_end) ==
    IF ~confirmed /\ ~is_match(matcher, Slice(buf, line_start, line_end))
    THEN [tag |-> "Continue", start |-> line_end]
    ELSE [tag |-> "Some", start |-> line_start, end |-> line_end]

\* line_start and line_end of the line holding offset `pos`
EnclosingLine(matcher, buf, pos, confirmed, before, after) ==
    LineAt(matcher, buf, pos, confirmed,
           IF before = None THEN 0 ELSE before.v + 1,
           IF after = None THEN Len(buf) ELSE after.v + pos + 1)

\* one round of the `while let Some(candidate)` loop
CandidateLine(matcher, buf, start, candidate) ==
    IF candidate = None THEN None
    ELSE EnclosingLine(matcher, buf, start + candidate.pos, candidate.kind = "Confirmed",
                       memrchr(NL, buf, start + candidate.pos),
                       memchr(NL, buf, start + candidate.pos))

RECURSIVE next_matching_line(_, _, _)
RECURSIVE NextMatchingLineFrom(_, _, _)
NextMatchingLineFrom(matcher, buf, line) ==
    IF line.tag = "Continue" THEN next_matching_line(matcher, buf, line.start) ELSE line

\* the span of the next line at or after `start` that the matcher accepts
next_matching_line(matcher, buf, start) ==
    NextMatchingLineFrom(matcher, buf,
        CandidateLine(matcher, buf, start,
                      find_candidate_line(matcher, Slice(buf, start, Len(buf)))))

(***************************************************************************)
(* Records.  A StorePath travels as JSON, a FileTreeEntry as               *)
(* METADATA \0 PATH; the frcode decoder hands out blocks of whole records, *)
(* each followed by '\n'.                                                  *)
(***************************************************************************)
\* serde_json::to_vec(&path): { hash , name }
ToJson(path) == <<123>> \o path.hash \o <<44>> \o path.name \o <<125>>

\* serde_json::from_slice::<StorePath>(json)
FromJson(json) ==
    LET n == Len(json)
        commas == {i \in 2 .. n - 1 : json[i] = 44}
    IN  IF n < 3 \/ json[1] # 123 \/ json[n] # 125 \/ Cardinality(commas) # 1 THEN None
        ELSE LET c == CHOOSE i \in commas : TRUE
             IN  [tag |-> "Some", hash |-> SubSeq(json, 2, c - 1), name |-> SubSeq(json, c + 1, n - 1)]

\* the StorePath of a parsed package record, without the Option wrapper
StorePathOf(parsed) == [hash |-> parsed.hash, name |-> parsed.name]

\* the last byte of METADATA names the node: d(irectory), r(egular), x(ecutable), s(ymlink)
NodeTags == {100, 114, 120, 115}

\* FileTreeEntry::encode: METADATA, NUL, PATH
EncodeEntry(entry) == entry.node \o <<NUL>> \o entry.path

\* FileTreeEntry::decode
DecodeEntry(buf) ==
    LET nul == memchr(NUL, buf, 0)
    IN  IF nul = None \/ nul.v = 0 THEN None
        ELSE IF buf[nul.v] \notin NodeTags THEN None
        ELSE [tag |-> "Some", node |-> Slice(buf, 0, nul.v), path |-> Slice(buf, nul.v + 1, Len(buf))]

FileTreeEntryOf(decoded) == [node |-> decoded.node, path |-> decoded.path]

\* the package record of a store path: p, NUL, JSON
PackageRecord(path) == <<CH_p, NUL>> \o ToJson(path)

RECURSIVE BlockOf(_)
\* the bytes of a decoded block holding the given records
BlockOf(records) ==
    IF records = <<>> THEN <<>>
    ELSE Head(records) \o <<NL>> \o BlockOf(Tail(records))

\* how many records a decode() call may return when n are left
BlockSizes(n, whole) == IF whole THEN {n} ELSE 1 .. n

(***************************************************************************)
(* Query.run: the anchor rewrite and the patterns of the ReaderIter.       *)
(***************************************************************************)
RECURSIVE ReplaceStartLine(_)
\* the rewrite that does not descend into alternations
ReplaceStartLine_NoAlternation(e) ==
    CASE e.kind = "Assertion" /\ e.akind = "StartLine" -> Lit(NUL)
      [] e.kind = "Group" -> Group(ReplaceStartLine(e.ast))
      [] e.kind = "Repetition" -> Repetition(ReplaceStartLine(e.ast))
      [] e.kind = "Concat" ->
           Concat([k \in 1 .. Len(e.asts) |-> ReplaceStartLine(e.asts[k])])
      [] OTHER -> e

ReplaceStartLine(e) ==
    CASE e.kind = "Assertion" /\ e.akind = "StartLine" -> Lit(NUL)
      [] e.kind = "Group" -> Group(ReplaceStartLine(e.ast))
      [] e.kind = "Repetition" -> Repetition(ReplaceStartLine(e.ast))
      [] e.kind = "Concat" ->
           Concat([k \in 1 .. Len(e.asts) |-> ReplaceStartLine(e.asts[k])])
      [] e.kind = "Alternation" ->
           Alternation([k \in 1 .. Len(e.asts) |-> ReplaceStartLine(e.asts[k])])
      [] OTHER -> e

\* the ReaderIter's patterns for a query (exact_regex, hash, package_pattern)
run(exact_regex, hash, package_pattern) ==
    [pattern |-> RegexMatcher(ReplaceStartLine(exact_regex)),
     exact_pattern |-> exact_regex,
     package_entry_pattern |-> RegexMatcher(Concat(<<StartLine, Lit(CH_p), Lit(NUL)>>)),
     package_name_pattern |-> package_pattern,
     package_hash |-> hash]

(***************************************************************************)
(* ReaderIter.fill_buf.  The work on one decoded block is ProcessBlock:    *)
(* the package cache, the drain of found_without_package and the scan.     *)
(* A found entry also remembers `src`, the position in the record stream   *)
(* of the file record it was decoded from (history only, never read by an  *)
(* operator that models the code).                                         *)
(***************************************************************************)
Some2(pkg, end) == [tag |-> "Some", pkg |-> pkg, end |-> end]
Err(kind, data) == [tag |-> "Err", kind |-> kind, data |-> data]

Cache(cached_package, no_more_package) ==
    [cached_package |-> cached_package, no_more_package |-> no_more_package]

\* the end of find_package: the JSON of the package line parsed, the cache updated
FoundPackage(c, json, pkg, end) ==
    IF pkg = None
    THEN [res |-> Err("StorePathParse", json), c |-> c]
    ELSE [res |-> Some2(StorePathOf(pkg), end),
          c |-> Cache(Some2(StorePathOf(pkg), end), c.no_more_package)]

\* the package line parsed, but cached as valid up to the end of the block
PackageLine_CachedForBlock(block, c, mat, json) ==
    IF FromJson(json) = None
    THEN [res |-> Err("StorePathParse", json), c |-> c]
    ELSE [res |-> Some2(StorePathOf(FromJson(json)), mat.end),
          c |-> Cache(Some2(StorePathOf(FromJson(json)), Len(block)), c.no_more_package)]

PackageLine(block, c, mat, json) == FoundPackage(c, json, FromJson(json), mat.end)

SearchedPackage(block, c, mat) ==
    IF mat = None THEN [res |-> None, c |-> Cache(c.cached_package, TRUE)]
    ELSE PackageLine(block, c, mat, Slice(block, mat.start + 2, mat.end - 1))

\* find_package answering from the cache whenever it holds a package
find_package_StaleCache(it, block, item_end, c) ==
    IF c.cached_package # None
    THEN [res |-> c.cached_package, c |-> c]
    ELSE IF c.no_more_package THEN [res |-> None, c |-> c]
    ELSE SearchedPackage(block, c,
                         next_matching_line(it.package_entry_pattern, block, item_end))

\* the find_package closure; c holds cached_package and no_more_package
find_package(it, block, item_end, c) ==
    IF c.cached_package # None /\ item_end < c.cached_package.end
    THEN [res |-> c.cached_package, c |-> c]
    ELSE IF c.no_more_package THEN [res |-> None, c |-> c]
    ELSE SearchedPackage(block, c,
                         next_matching_line(it.package_entry_pattern, block, item_end))

\* should_search_package accepting a package that passes either filter
should_search_package_Either(it, pkg) ==
    \/ (it.package_name_pattern = None
        \/ RegexIsMatch(it.package_name_pattern.v, pkg.name, FALSE))
    \/ (it.package_hash = None \/ it.package_hash.v = pkg.hash)

\* the should_search_package closure
should_search_package(it, pkg) ==
    /\ (it.package_name_pattern = None
        \/ RegexIsMatch(it.package_name_pattern.v, pkg.name, FALSE))
    /\ (it.package_hash = None \/ it.package_hash.v = pkg.hash)

\* the position in the stream of the record whose line starts at offset `start`
SrcOf(base, block, start) ==
    base + 1 + Cardinality({i \in 1 .. start : block[i] = NL})

\* what fill_buf holds while it works on a block
ScanState(fnd, fwp, c, pos) == [found |-> fnd, fwp |-> fwp, c |-> c, pos |-> pos]

Stopped(tag, s, err) == [tag |-> tag, found |-> s.found, fwp |-> s.fwp, err |-> err]

RECURSIVE Scan(_, _, _, _)
RECURSIVE ScanMatch(_, _, _, _, _)
RECURSIVE ScanEntry(_, _, _, _, _, _)
RECURSIVE ScanPackage(_, _, _, _, _, _, _)
RECURSIVE ScanDecoded(_, _, _, _, _, _)
RECURSIVE ScanPush(_, _, _, _, _, _)

\* the push that keeps only the latest entry without a package
ScanPush_DefersLatestOnly(it, block, base, s, e, fp) ==
    IF fp.res.tag = "Err" THEN Stopped("Err", s, fp.res)
    ELSE IF fp.res = None
    THEN Scan(it, block, base, ScanState(s.found, <<e>>, fp.c, s.pos))
    ELSE Scan(it, block, base,
              ScanState(Append(s.found, [pkg |-> fp.res.pkg, entry |-> e.entry, src |-> e.src]),
                        s.fwp, fp.c, s.pos))

\* `match find_package(mat.end())?`: push into found or found_without_package
ScanPush(it, block, base, s, e, fp) ==
    IF fp.res.tag = "Err" THEN Stopped("Err", s, fp.res)
    ELSE IF fp.res = None
    THEN Scan(it, block, base, ScanState(s.found, Append(s.fwp, e), fp.c, s.pos))
    ELSE Scan(it, block, base,
              ScanState(Append(s.found, [pkg |-> fp.res.pkg, entry |-> e.entry, src |-> e.src]),
                        s.fwp, fp.c, s.pos))

\* the scan without the check of the path against exact_pattern
ScanDecoded_NoExactCheck(it, block, base, s, mat, decoded) ==
    IF decoded = None
    THEN Stopped("Err", s, Err("EntryParse", Slice(block, mat.start, mat.end - 1)))
    ELSE ScanPush(it, block, base, s,
                  [entry |-> FileTreeEntryOf(decoded), src |-> SrcOf(base, block, mat.start)],
                  find_package(it, block, mat.end, s.c))

\* FileTreeEntry::decode(entry), then the check against exact_pattern
ScanDecoded(it, block, base, s, mat, decoded) ==
    IF decoded = None
    THEN Stopped("Err", s, Err("EntryParse", Slice(block, mat.start, mat.end - 1)))
    ELSE IF ~RegexIsMatch(it.exact_pattern, decoded.path, FALSE)
    THEN Scan(it, block, base, s)
    ELSE ScanPush(it, block, base, s,
                  [entry |-> FileTreeEntryOf(decoded), src |-> SrcOf(base, block, mat.start)],
                  find_package(it, block, mat.end, s.c))

\* the scan decoding the entry whatever should_search_package says
ScanPackage_DecodesRejected(it, block, base, s, mat, entry, fp) ==
    IF fp.res.tag = "Err" THEN Stopped("Err", s, fp.res)
    ELSE ScanDecoded(it, block, base, ScanState(s.found, s.fwp, fp.c, s.pos), mat,
                     DecodeEntry(entry))

\* `if let Some((pkg, end)) = find_package(mat.end())?`: skip a rejected package
ScanPackage(it, block, base, s, mat, entry, fp) ==
    IF fp.res.tag = "Err" THEN Stopped("Err", s, fp.res)
    ELSE IF fp.res # None /\ ~should_search_package(it, fp.res.pkg)
    THEN Scan(it, block, base, ScanState(s.found, s.fwp, fp.c, fp.res.end))
    ELSE ScanDecoded(it, block, base, ScanState(s.found, s.fwp, fp.c, s.pos), mat,
                     DecodeEntry(entry))

\* the scan treating a package line like any other matched line
ScanEntry_NoSkip(it, block, base, s, mat, entry) ==
    ScanPackage(it, block, base, s, mat, entry, find_package(it, block, mat.end, s.c))

\* skip entries that aren't describing file paths
ScanEntry(it, block, base, s, mat, entry) ==
    IF is_match(it.package_entry_pattern, entry) THEN Scan(it, block, base, s)
    ELSE ScanPackage(it, block, base, s, mat, entry, find_package(it, block, mat.end, s.c))

\* the body of the scan loop for one match; pos = mat.end()
ScanMatch(it, block, base, s, mat) ==
    IF mat = None THEN Stopped("Ok", s, None)
    ELSE IF mat.start > mat.end - 1
    THEN \* &block[mat.start()..mat.end() - 1] with start > end: slice index panic
         Stopped("Panic", s, None)
    ELSE ScanEntry(it, block, base, ScanState(s.found, s.fwp, s.c, mat.end), mat,
                   Slice(block, mat.start, mat.end - 1))

\* `while let Some(mat) = next_matching_line(&self.pattern, &block, pos)`
Scan(it, block, base, s) ==
    ScanMatch(it, block, base, s, next_matching_line(it.pattern, block, s.pos))

\* found_without_package.split_off(0), each entry pushed with the package
AttachPackage(pkg, fwp) ==
    [k \in 1 .. Len(fwp) |-> [pkg |-> pkg, entry |-> fwp[k].entry, src |-> fwp[k].src]]

\* the drain forgetting the deferred entries instead of pushing them
Drain_DropsDeferred(it, found0, fwp0, fp) ==
    IF fp.res.tag = "Err" THEN [tag |-> "Err", err |-> fp.res, s |-> ScanState(found0, fwp0, fp.c, 0)]
    ELSE IF fp.res = None THEN [tag |-> "Ok", s |-> ScanState(found0, fwp0, fp.c, 0)]
    ELSE IF ~should_search_package(it, fp.res.pkg)
    THEN [tag |-> "Ok", s |-> ScanState(found0, <<>>, fp.c, fp.res.end)]
    ELSE [tag |-> "Ok", s |-> ScanState(found0, <<>>, fp.c, 0)]

\* the drain pushing the deferred entries without taking them out of
\* found_without_package
Drain_KeepsDeferred(it, found0, fwp0, fp) ==
    IF fp.res.tag = "Err" THEN [tag |-> "Err", err |-> fp.res, s |-> ScanState(found0, fwp0, fp.c, 0)]
    ELSE IF fp.res = None THEN [tag |-> "Ok", s |-> ScanState(found0, fwp0, fp.c, 0)]
    ELSE IF ~should_search_package(it, fp.res.pkg)
    THEN [tag |-> "Ok", s |-> ScanState(found0, <<>>, fp.c, fp.res.end)]
    ELSE [tag |-> "Ok", s |-> ScanState(found0 \o AttachPackage(fp.res.pkg, fwp0), fwp0, fp.c, 0)]

\* `if !self.found_without_package.is_empty()`: the drain, given find_package(0)
Drain(it, found0, fwp0, fp) ==
    IF fp.res.tag = "Err" THEN [tag |-> "Err", err |-> fp.res, s |-> ScanState(found0, fwp0, fp.c, 0)]
    ELSE IF fp.res = None THEN [tag |-> "Ok", s |-> ScanState(found0, fwp0, fp.c, 0)]
    ELSE IF ~should_search_package(it, fp.res.pkg)
    THEN [tag |-> "Ok", s |-> ScanState(found0, <<>>, fp.c, fp.res.end)]
    ELSE [tag |-> "Ok", s |-> ScanState(found0 \o AttachPackage(fp.res.pkg, fwp0), <<>>, fp.c, 0)]

ScanAfterDrain(it, block, base, d) ==
    IF d.tag = "Err" THEN Stopped("Err", d.s, d.err) ELSE Scan(it, block, base, d.s)

\* one iteration of the `while self.found.is_empty()` loop on a non-empty block
ProcessBlock(it, block, base, found0, fwp0) ==
    IF fwp0 # <<>>
    THEN ScanAfterDrain(it, block, base,
                        Drain(it, found0, fwp0, find_package(it, block, 0, Cache(None, FALSE))))
    ELSE Scan(it, block, base, ScanState(found0, fwp0, Cache(None, FALSE), 0))

\* the ReaderIter and its decoder after a block of k records went through `out`
AfterBlock(r, k, out) ==
    [tag |-> out.tag, err |-> out.err,
     r |-> [found |-> out.found, fwp |-> out.fwp,
            input |-> SubSeq(r.input, k + 1, Len(r.input)),
            consumed |-> r.consumed + k,
            cuts |-> r.cuts \cup {r.consumed + k}]]

RECURSIVE fill_buf(_, _, _)
RECURSIVE FillBufFrom(_, _, _)
\* fill_buf returning after one block, whatever it found
FillBufFrom_Once(it, o, whole) == {o}

FillBufFrom(it, o, whole) == IF o.tag = "Ok" THEN fill_buf(it, o.r, whole) ELSE {o}

\* every way fill_buf can end, over the block sizes the decoder may choose;
\* r: found, fwp, input, consumed, cuts
fill_buf(it, r, whole) ==
    IF r.found # <<>> THEN {[tag |-> "Ok", r |-> r]}
    ELSE IF r.input = <<>> THEN {[tag |-> "Ok", r |-> r]}
    ELSE UNION {
        FillBufFrom(it,
                    AfterBlock(r, k, ProcessBlock(it, BlockOf(SubSeq(r.input, 1, k)),
                                                  r.consumed, r.found, r.fwp)),
                    whole)
        : k \in BlockSizes(Len(r.input), whole)}

\* next_match handing out the oldest entry of found first
next_match_Fifo(it, r, whole) ==
    {IF o.tag = "Ok"
     THEN IF o.r.found = <<>> THEN [item |-> None, r |-> o.r]
          ELSE [item |-> [tag |-> "Ok", v |-> o.r.found[1]],
                r |-> [o.r EXCEPT !.found = SubSeq(@, 2, Len(@))]]
     ELSE IF o.tag = "Err" THEN [item |-> o.err, r |-> o.r]
     ELSE [item |-> [tag |-> "Panic"], r |-> o.r]
     : o \in fill_buf(it, r, whole)}

\* next_match and Iterator::next: every (item, state) a call can produce
next_match(it, r, whole) ==
    {IF o.tag = "Ok"
     THEN IF o.r.found = <<>> THEN [item |-> None, r |-> o.r]
          ELSE [item |-> [tag |-> "Ok", v |-> o.r.found[Len(o.r.found)]],
                r |-> [o.r EXCEPT !.found = SubSeq(@, 1, Len(@) - 1)]]
     ELSE IF o.tag = "Err" THEN [item |-> o.err, r |-> o.r]
     ELSE [item |-> [tag |-> "Panic"], r |-> o.r]
     : o \in fill_buf(it, r, whole)}

(***************************************************************************)
(* The container: magic, version, then the compressed frame.  A u64 is     *)
(* kept as four 16-bit limbs, least significant first.                     *)
(***************************************************************************)
FORMAT_VERSION == <<1, 0, 0, 0>>
FILE_MAGIC == <<78, 73, 88, 73>>

\* ReadBytesExt::read_u64::<LittleEndian> on 8 bytes
read_u64_LittleEndian(b) == [k \in 1 .. 4 |-> b[2 * k - 1] + 256 * b[2 * k]]

\* WriteBytesExt::write_u64::<LittleEndian>
write_u64_LittleEndian(v) ==
    [i \in 1 .. 8 |-> IF i % 2 = 1 THEN v[(i + 1) \div 2] % 256 ELSE v[i \div 2] \div 256]

\* open with the version compared on its low 16 bits only
open_LowWordOnly(hdr, readable, zstd_ok) ==
    IF ~readable THEN Err("Io", <<>>)
    ELSE IF Len(hdr) < 4 THEN Err("Io", <<>>)
    ELSE IF SubSeq(hdr, 1, 4) # FILE_MAGIC THEN Err("UnsupportedFileType", SubSeq(hdr, 1, 4))
    ELSE IF Len(hdr) < 12 THEN Err("Io", <<>>)
    ELSE IF read_u64_LittleEndian(SubSeq(hdr, 5, 12))[1] # FORMAT_VERSION[1]
    THEN Err("UnsupportedVersion", read_u64_LittleEndian(SubSeq(hdr, 5, 12)))
    ELSE IF ~zstd_ok THEN Err("Io", <<>>)
    ELSE [tag |-> "Ok"]

\* Reader::open on the bytes of a file; readable: File::open succeeds,
\* zstd_ok: zstd::Decoder::new succeeds
open(hdr, readable, zstd_ok) ==
    IF ~readable THEN Err("Io", <<>>)
    ELSE IF Len(hdr) < 4 THEN Err("Io", <<>>)
    ELSE LET magic == SubSeq(hdr, 1, 4)
         IN  IF magic # FILE_MAGIC THEN Err("UnsupportedFileType", magic)
             ELSE IF Len(hdr) < 12 THEN Err("Io", <<>>)
             ELSE LET version == read_u64_LittleEndian(SubSeq(hdr, 5, 12))
                  IN  IF version # FORMAT_VERSION THEN Err("UnsupportedVersion", version)
                      ELSE IF ~zstd_ok THEN Err("Io", <<>>)
                      ELSE [tag |-> "Ok"]

(***************************************************************************)
(* The Writer.                                                             *)
(***************************************************************************)
\* is `prefix` a prefix of `path`
StartsWith(path, prefix) ==
    Len(prefix) <= Len(path) /\ SubSeq(path, 1, Len(prefix)) = prefix

\* FileTree::to_list(filter_prefix): the tree's entries, in its order, under the prefix
to_list(files, filter_prefix) ==
    SelectSeq(files, LAMBDA entry : StartsWith(entry.path, filter_prefix))

\* add emitting the package record ahead of the file records
AddRecords_FooterFirst(path, files, filter_prefix) ==
    <<PackageRecord(path)>>
    \o [k \in 1 .. Len(to_list(files, filter_prefix)) |->
          EncodeEntry(to_list(files, filter_prefix)[k])]

\* the records one successful add hands to the compressor: the file records of the
\* retained entries, then the package record the frcode encoder ends with
AddRecords(path, files, filter_prefix) ==
    LET list == to_list(files, filter_prefix)
    IN  [k \in 1 .. Len(list) |-> EncodeEntry(list[k])] \o <<PackageRecord(path)>>

\* finish_encoder leaving the encoder in the field when it fails
finish_encoder_KeepsWriter(flush_ok, finish_ok) ==
    IF ~flush_ok THEN [res |-> "Err", writer |-> "Some", calls |-> 0, frame |-> "abandoned"]
    ELSE IF ~finish_ok THEN [res |-> "Err", writer |-> "Some", calls |-> 1, frame |-> "broken"]
    ELSE [res |-> "Ok", writer |-> "None", calls |-> 1, frame |-> "finalized"]

\* Writer::finish_encoder on a Writer whose field is Some: take() leaves None;
\* flush_ok: BufWriter::into_inner succeeds, finish_ok: zstd::Encoder::finish
\* succeeds.  calls: how often Encoder::finish ran.
finish_encoder(flush_ok, finish_ok) ==
    IF ~flush_ok THEN [res |-> "Err", writer |-> "None", calls |-> 0, frame |-> "abandoned"]
    ELSE IF ~finish_ok THEN [res |-> "Err", writer |-> "None", calls |-> 1, frame |-> "broken"]
    ELSE [res |-> "Ok", writer |-> "None", calls |-> 1, frame |-> "finalized"]

\* impl Drop for Writer, on a Writer whose field is w and whose frame is in state
\* `frame`: finish_encoder().unwrap() when the field is still Some
drop(w, frame, flush_ok, finish_ok) ==
    IF w = "Some"
    THEN LET fe == finish_encoder(flush_ok, finish_ok)
         IN  [res |-> IF fe.res = "Ok" THEN "Ok" ELSE "Panic",
              writer |-> fe.writer, calls |-> fe.calls, frame |-> fe.frame]
    ELSE [res |-> "Ok", writer |-> w, calls |-> 0, frame |-> frame]

\* Writer::finish, with the drop of `self` that ends it; the size comes from seek
finish(flush_ok, finish_ok, seek_ok) ==
    LET fe == finish_encoder(flush_ok, finish_ok)
        d == drop(fe.writer, fe.frame, flush_ok, finish_ok)
    IN  [res |-> IF d.res = "Panic" THEN "Panic"
                 ELSE IF fe.res = "Err" \/ ~seek_ok THEN "Err" ELSE "Ok",
         writer |-> d.writer, calls |-> fe.calls + d.calls, frame |-> d.frame]

(***************************************************************************)
(* Bounds and the values the operations are tried on.                      *)
(***************************************************************************)
MaxRecs == 4
MaxAdds == 2

StorePathA == [hash |-> <<97>>, name |-> <<120>>]          \* hash "a", name "x"
StorePathB == [hash |-> <<98>>, name |-> <<121>>]          \* hash "b", name "y"
EntryA == [node |-> <<100>>, path |-> <<47, 97>>]          \* directory "/a"
EntryB == [node |-> <<97, 115>>, path |-> <<47, 98>>]      \* symlink to "a" at "/b"

StorePaths == {StorePathA, StorePathB}
FileTrees == {<<>>, <<EntryA>>, <<EntryB>>, <<EntryA, EntryB>>}
Prefixes == {<<>>, <<47, 97>>}

RegexAny == Repetition(Dot)                                \* .*
RegexRoot == Concat(<<StartLine, Lit(47)>>)                \* ^/
RegexA == Lit(97)                                          \* a
Regexes == {RegexAny, RegexRoot, RegexA}
Hashes == {None, [tag |-> "Some", v |-> <<98>>]}
PackagePatterns == {None, [tag |-> "Some", v |-> Lit(120)]}

FileRecords == {EncodeEntry(EntryA), EncodeEntry(EntryB)}
PackageRecords == {PackageRecord(StorePathA), PackageRecord(StorePathB)}
\* a file record nothing decodes ("a" NUL "/a": no node tag) and a package record
\* whose JSON does not parse
CorruptFileRecord == <<97, NUL, 47, 97>>
CorruptPackageRecord == <<CH_p, NUL, 123>>

SeqsUpTo(S, n) == UNION {[1 .. k -> S] : k \in 0 .. n}

ValidHeader == FILE_MAGIC \o write_u64_LittleEndian(FORMAT_VERSION)

NoWriter ==
    /\ writer = "Absent" /\ wlife = "uncreated" /\ finishCalls = 0
    /\ wresult = "None" /\ addCalls = 0 /\ adds = <<>>

NoReader ==
    /\ reader = [tag |-> "Unopened"] /\ input = <<>> /\ consumed = 0 /\ cuts = {}
    /\ query = None /\ found = <<>> /\ found_without_package = <<>>
    /\ yielded = <<>> /\ last = [tag |-> "Nothing"] /\ status = "idle"
    /\ single = [filtered |-> <<>>, unfiltered |-> <<>>]

\* no nix-env child spawned, no function exercised on its own
NoAside == packagesQuery = [tag |-> "Absent"] /\ call = [tag |-> "Nothing"]

\* nothing on disk, no Writer, no Reader
Init ==
    /\ NoWriter /\ NoReader /\ NoAside
    /\ disk = [hdr |-> <<>>, stream |-> <<>>, frame |-> "none", readable |-> TRUE]

\* a finished database holding any stream of well-formed records
InitQuery ==
    /\ NoWriter /\ NoReader /\ NoAside
    /\ \E stream \in SeqsUpTo(FileRecords \cup PackageRecords, MaxRecs) :
           disk = [hdr |-> ValidHeader, stream |-> stream, frame |-> "finalized",
                   readable |-> TRUE]

\* a finished database holding a stream with at least one corrupt record
InitCorrupt ==
    /\ NoWriter /\ NoReader /\ NoAside
    /\ \E stream \in SeqsUpTo(FileRecords \cup PackageRecords
                                \cup {CorruptFileRecord, CorruptPackageRecord}, MaxRecs) :
           /\ \E k \in 1 .. Len(stream) :
                  stream[k] \in {CorruptFileRecord, CorruptPackageRecord}
           /\ disk = [hdr |-> ValidHeader, stream |-> stream, frame |-> "finalized",
                      readable |-> TRUE]

\* a finished database of package records and file records that do not decode
InitRejected ==
    /\ NoWriter /\ NoReader /\ NoAside
    /\ \E stream \in SeqsUpTo(PackageRecords \cup {CorruptFileRecord}, MaxRecs) :
           disk = [hdr |-> ValidHeader, stream |-> stream, frame |-> "finalized",
                   readable |-> TRUE]

\* the headers Reader::open is tried on: every prefix of a magic followed by a version
Magics == {FILE_MAGIC, <<78, 73, 88, 74>>, <<73, 88, 73, 78>>, <<78, 73, 88, 0>>}
Versions == {write_u64_LittleEndian(FORMAT_VERSION), write_u64_LittleEndian(<<2, 0, 0, 0>>),
             write_u64_LittleEndian(<<0, 0, 0, 0>>), write_u64_LittleEndian(<<257, 0, 0, 0>>),
             write_u64_LittleEndian(<<1, 0, 0, 256>>), write_u64_LittleEndian(<<0, 0, 0, 256>>)}
Headers == {SubSeq(m \o v, 1, n) : m \in Magics, v \in Versions, n \in 0 .. 12}

\* any file, readable or not
InitOpen ==
    /\ NoWriter /\ NoReader /\ NoAside
    /\ \E hdr \in Headers, readable \in BOOLEAN :
           disk = [hdr |-> hdr, stream |-> <<>>, frame |-> "finalized", readable |-> readable]

(***************************************************************************)
(* Actions.                                                                *)
(***************************************************************************)
(***************************************************************************)
(* The same iteration when the decoder returns the stream as one block.    *)
(***************************************************************************)
\* the (package, entry) pairs among the given items, in order
PairOf(item) == [pkg |-> item.v.pkg, entry |-> item.v.entry]
RECURSIVE PairsOf(_)
PairsOf(items) ==
    IF items = <<>> THEN <<>>
    ELSE IF Head(items).tag = "Ok" THEN <<PairOf(Head(items))>> \o PairsOf(Tail(items))
    ELSE PairsOf(Tail(items))

RECURSIVE DrainAll(_, _, _)
RECURSIVE DrainStep(_, _, _)
DrainStep(it, o, acc) ==
    IF o.item.tag \in {"None", "Panic"} THEN acc ELSE DrainAll(it, o.r, Append(acc, o.item))

\* the items next() returns, called until it returns None or panics, when the
\* decoder returns all of its input as a single block
DrainAll(it, r, acc) ==
    CHOOSE items \in {DrainStep(it, o, acc) : o \in next_match(it, r, TRUE)} : TRUE

FreshIter(stream) == [found |-> <<>>, fwp |-> <<>>, input |-> stream, consumed |-> 0,
                      cuts |-> {}]

SingleBlock(exact_regex, hash, package_pattern, stream) ==
    [filtered |-> PairsOf(DrainAll(run(exact_regex, hash, package_pattern),
                                   FreshIter(stream), <<>>)),
     unfiltered |-> PairsOf(DrainAll(run(exact_regex, None, None), FreshIter(stream), <<>>))]

AsideVars == <<packagesQuery, call>>
WriterVars == <<writer, wlife, finishCalls, wresult, addCalls, adds>>
ReaderVars == <<reader, input, consumed, cuts, query, found, found_without_package,
                yielded, last, single, status>>

\* Writer::create
Create ==
    /\ wlife = "uncreated" /\ disk.frame = "none"
    /\ \E ok \in BOOLEAN :
         IF ok
         THEN /\ writer' = "Some" /\ wlife' = "alive" /\ wresult' = "Ok"
              /\ disk' = [hdr |-> FILE_MAGIC \o write_u64_LittleEndian(FORMAT_VERSION),
                          stream |-> <<>>, frame |-> "open", readable |-> TRUE]
         ELSE /\ writer' = "Absent" /\ wlife' = "failed" /\ wresult' = "Err"
              /\ disk' = disk
    /\ UNCHANGED <<finishCalls, addCalls, adds>>
    /\ UNCHANGED ReaderVars
    /\ UNCHANGED AsideVars

\* Writer::add; failing = 0: every entry is encoded, else entry.encode fails at
\* that entry, and the encoder that goes out of scope may or may not get its
\* package record out
Add ==
    /\ wlife = "alive" /\ writer = "Some" /\ addCalls < MaxAdds
    /\ \E path \in StorePaths, files \in FileTrees, filter_prefix \in Prefixes :
         LET recs == AddRecords(path, files, filter_prefix)
             n == Len(recs) - 1
         IN  \E failing \in 0 .. n, footer \in BOOLEAN :
               IF failing = 0
               THEN /\ footer
                    /\ disk' = [disk EXCEPT !.stream = @ \o recs]
                    /\ adds' = Append(adds, [path |-> path, files |-> files,
                                             filter_prefix |-> filter_prefix])
                    /\ wresult' = "Ok"
               ELSE /\ disk' = [disk EXCEPT !.stream =
                                  @ \o SubSeq(recs, 1, failing - 1)
                                    \o (IF footer THEN <<recs[n + 1]>> ELSE <<>>)]
                    /\ adds' = adds
                    /\ wresult' = "Err"
    /\ addCalls' = addCalls + 1
    /\ UNCHANGED <<writer, wlife, finishCalls>>
    /\ UNCHANGED ReaderVars
    /\ UNCHANGED AsideVars

\* Writer::finish
Finish ==
    /\ wlife = "alive" /\ writer = "Some"
    /\ \E flush_ok \in BOOLEAN, finish_ok \in BOOLEAN, seek_ok \in BOOLEAN :
         LET f == finish(flush_ok, finish_ok, seek_ok)
         IN  /\ writer' = f.writer
             /\ finishCalls' = finishCalls + f.calls
             /\ wresult' = f.res
             /\ disk' = [disk EXCEPT !.frame = f.frame]
    /\ wlife' = "gone"
    /\ UNCHANGED <<addCalls, adds>>
    /\ UNCHANGED ReaderVars
    /\ UNCHANGED AsideVars

\* the Writer goes out of scope without finish
Drop ==
    /\ wlife = "alive"
    /\ \E flush_ok \in BOOLEAN, finish_ok \in BOOLEAN :
         LET d == drop(writer, disk.frame, flush_ok, finish_ok)
         IN  /\ writer' = d.writer
             /\ finishCalls' = finishCalls + d.calls
             /\ wresult' = d.res
             /\ disk' = [disk EXCEPT !.frame = d.frame]
    /\ wlife' = "gone"
    /\ UNCHANGED <<addCalls, adds>>
    /\ UNCHANGED ReaderVars
    /\ UNCHANGED AsideVars

\* Reader::open on the file, once no Writer holds it
Open ==
    /\ reader.tag = "Unopened" /\ wlife # "alive" /\ disk.frame = "finalized"
    /\ \E zstd_ok \in BOOLEAN :
         /\ reader' = open(disk.hdr, disk.readable, zstd_ok)
         /\ input' = IF reader'.tag = "Ok" THEN disk.stream ELSE <<>>
    /\ UNCHANGED <<consumed, cuts, query, found, found_without_package, yielded, last, single,
                   status>>
    /\ UNCHANGED <<disk>>
    /\ UNCHANGED WriterVars
    /\ UNCHANGED AsideVars

\* Reader::query(exact_regex).hash(hash).package_pattern(package_pattern).run()
Run ==
    /\ reader.tag = "Ok" /\ query = None
    /\ \E exact_regex \in Regexes, hash \in Hashes, package_pattern \in PackagePatterns :
         /\ query' = run(exact_regex, hash, package_pattern)
         /\ single' = SingleBlock(exact_regex, hash, package_pattern, input)
    /\ found' = <<>> /\ found_without_package' = <<>>
    /\ status' = "running"
    /\ UNCHANGED <<reader, input, consumed, cuts, yielded, last>>
    /\ UNCHANGED <<disk>>
    /\ UNCHANGED WriterVars
    /\ UNCHANGED AsideVars

IterState == [found |-> found, fwp |-> found_without_package, input |-> input,
              consumed |-> consumed, cuts |-> cuts]

\* Iterator::next on the ReaderIter
Next_ ==
    /\ status = "running"
    /\ \E o \in next_match(query, IterState, FALSE) :
         /\ found' = o.r.found
         /\ found_without_package' = o.r.fwp
         /\ input' = o.r.input
         /\ consumed' = o.r.consumed
         /\ cuts' = o.r.cuts
         /\ last' = o.item
         /\ status' = IF o.item.tag = "Panic" THEN "panicked" ELSE status
         /\ yielded' = IF o.item.tag \in {"Ok", "Err"} THEN Append(yielded, o.item) ELSE yielded
    /\ UNCHANGED <<reader, query, single>>
    /\ UNCHANGED <<disk>>
    /\ UNCHANGED WriterVars
    /\ UNCHANGED AsideVars

Next == Create \/ Add \/ Finish \/ Drop \/ Open \/ Run \/ Next_
Spec == Init /\ [][Next]_vars

\* the writer alone: create, add, finish, drop
NextWriter == Create \/ Add \/ Finish \/ Drop
SpecWriter == Init /\ [][NextWriter]_vars

NextQuery == Open \/ Run \/ Next_
SpecQuery == InitQuery /\ [][NextQuery]_vars
SpecCorrupt == InitCorrupt /\ [][NextQuery]_vars
SpecRejected == InitRejected /\ [][NextQuery]_vars

NextOpen == Open
SpecOpen == InitOpen /\ [][NextOpen]_vars

(***************************************************************************)
(* What the properties below talk about.                                   *)
(***************************************************************************)
Range(seq) == {seq[i] : i \in DOMAIN seq}
SeqBag(seq) == [x \in Range(seq) |-> Cardinality({i \in DOMAIN seq : seq[i] = x})]

\* every found (package, entry, src), delivered or waiting in found
Resolved == Range(found) \cup {y.v : y \in {z \in Range(yielded) : z.tag = "Ok"}}

\* the iteration is over: next() returned None, or the process panicked
Ended == status = "running" /\ last = None
DrainOver == status = "panicked" \/ Ended

IsPackageRecord(rec) == Len(rec) >= 2 /\ rec[1] = CH_p /\ rec[2] = NUL

\* the position of the first package record after position i, 0 if there is none
OwnerIndex(stream, i) ==
    LET later == {j \in i + 1 .. Len(stream) : IsPackageRecord(stream[j])}
    IN  IF later = {} THEN 0 ELSE Min(later)

\* the predicate of section 4.5, stated on the query's filters
PassesFilters(it, pkg) ==
    /\ (it.package_name_pattern = None
        \/ RegexIsMatch(it.package_name_pattern.v, pkg.name, FALSE))
    /\ (it.package_hash = None \/ it.package_hash.v = pkg.hash)

\* the multiset the round trip promises for the add calls made
RECURSIVE ExpectedPairs(_)
ExpectedPairs(calls) ==
    IF calls = <<>> THEN <<>>
    ELSE LET c == Head(calls)
             list == to_list(c.files, c.filter_prefix)
         IN  [k \in 1 .. Len(list) |-> [pkg |-> c.path, entry |-> list[k]]]
             \o ExpectedPairs(Tail(calls))

(***************************************************************************)
(* Properties.                                                             *)
(***************************************************************************)

\* C1: after add calls that all succeeded and a successful finish, the query
\* `.*` without filters runs to its end and has then yielded exactly the
\* multiset of (StorePath_i, entry) for the entries of FileTree_i under prefix_i.
C1_RoundTrip ==
    (/\ wlife = "gone" /\ wresult = "Ok" /\ addCalls = Len(adds)
     /\ query = run(RegexAny, None, None))
    => /\ status # "panicked"
       /\ Ended => SeqBag(PairsOf(yielded)) = SeqBag(ExpectedPairs(adds))

\* C2: a file record that matches the query, is the last record of a decoded
\* block and has its package record in a later block has been yielded exactly
\* once, with that package, when the iteration is over.
C2_CrossBlockOnce ==
    DrainOver =>
      \A i \in cuts :
        LET o == OwnerIndex(disk.stream, i)
            e == DecodeEntry(disk.stream[i])
        IN  (/\ ~IsPackageRecord(disk.stream[i]) /\ o # 0 /\ e # None
             /\ RegexIsMatch(query.exact_pattern, e.path, FALSE)
             /\ PassesFilters(query, StorePathOf(FromJson(Slice(disk.stream[o], 2, Len(disk.stream[o]))))))
            => Cardinality({k \in DOMAIN yielded :
                              /\ yielded[k].tag = "Ok" /\ yielded[k].v.src = i
                              /\ PackageRecord(yielded[k].v.pkg) = disk.stream[o]}) = 1

\* C3: when the iteration is over, the multiset of pairs yielded is the one the
\* same query yields on the same stream decoded as a single block, whatever
\* blocks the decoder cut the stream into.
C3_BlockIndependence ==
    DrainOver => SeqBag(PairsOf(yielded)) = SeqBag(single.filtered)

C3_Witness ==
    /\ Ended /\ Cardinality(cuts) >= 2 /\ Len(yielded) >= 2
    /\ \E k \in DOMAIN yielded : \E c \in cuts :
          yielded[k].v.src <= c /\ c < OwnerIndex(disk.stream, yielded[k].v.src)

\* C4: when the iteration is over, the set of pairs yielded is the set the query
\* yields without hash and package-name filter, restricted to the pairs whose
\* package passes both filters.
C4_FilterComposition ==
    DrainOver =>
      Range(PairsOf(yielded)) = {p \in Range(single.unfiltered) : PassesFilters(query, p.pkg)}

C4_Witness ==
    /\ Ended /\ query.package_hash # None /\ query.package_name_pattern = None
    /\ Len(yielded) >= 1 /\ Cardinality(cuts) >= 2
    /\ \E k \in DOMAIN yielded : \E c \in cuts :
          yielded[k].v.src <= c /\ c < OwnerIndex(disk.stream, yielded[k].v.src)
    /\ \E i \in DOMAIN disk.stream :
          /\ disk.stream[i] \in FileRecords
          /\ OwnerIndex(disk.stream, i) # 0
          /\ disk.stream[OwnerIndex(disk.stream, i)] = PackageRecord(StorePathA)

\* C5: every pair in found or yielded pairs the entry decoded from the file
\* record at its position with the first package record after that position.
C5_CorrectOwner ==
    \A v \in Resolved :
      /\ v.src \in DOMAIN disk.stream
      /\ disk.stream[v.src] = EncodeEntry(v.entry)
      /\ OwnerIndex(disk.stream, v.src) # 0
      /\ disk.stream[OwnerIndex(disk.stream, v.src)] = PackageRecord(v.pkg)

C5_Witness ==
    /\ Ended
    \* an entry whose package came with a later block
    /\ \E k \in DOMAIN yielded : \E c \in cuts :
          yielded[k].v.src <= c /\ c < OwnerIndex(disk.stream, yielded[k].v.src)
    \* two entries of one package found in the block of their package record:
    \* the second one is answered from the cache
    /\ \E j, k \in DOMAIN yielded :
          /\ yielded[j].v.src < yielded[k].v.src
          /\ OwnerIndex(disk.stream, yielded[j].v.src)
               = OwnerIndex(disk.stream, yielded[k].v.src)
          /\ \A c \in cuts :
                ~(yielded[j].v.src <= c /\ c < OwnerIndex(disk.stream, yielded[j].v.src))

\* C6: every entry in found, in found_without_package or yielded has a path the
\* exact regex matches.
C6_NoFalsePositive ==
    \A e \in {v.entry : v \in Resolved} \cup {w.entry : w \in Range(found_without_package)} :
      RegexIsMatch(query.exact_pattern, e.path, FALSE)

C6_Witness ==
    /\ Ended /\ query.exact_pattern = RegexA /\ Len(yielded) >= 1
    /\ \E i \in DOMAIN disk.stream :
          /\ disk.stream[i] = EncodeEntry(EntryB)
          /\ OwnerIndex(disk.stream, i) # 0
          /\ PassesFilters(query, StorePathOf(FromJson(
                 Slice(disk.stream[OwnerIndex(disk.stream, i)], 2,
                       Len(disk.stream[OwnerIndex(disk.stream, i)])))))

\* C7: next() does not return None, ending the iteration normally, while
\* found_without_package still holds entries.
C7_MissingPackageEntry == Ended => found_without_package = <<>>

\* C8: an error is the last item the iterator yields: no result and no error
\* follows it.
C8_ExhaustedAfterError ==
    \A k \in DOMAIN yielded : yielded[k].tag = "Err" => k = Len(yielded)

\* the version field of a header of at least 12 bytes, little-endian
VersionField(hdr) == [k \in 1 .. 4 |-> hdr[4 + 2 * k - 1] + 256 * hdr[4 + 2 * k]]

\* C9: opening a readable file whose first 4 bytes are not NIXI fails with
\* UnsupportedFileType carrying those bytes, whatever follows them; with the
\* magic right and a version field other than 1 it fails with
\* UnsupportedVersion carrying that version.
C9_Framing ==
    (reader.tag # "Unopened" /\ disk.readable) =>
      /\ (Len(disk.hdr) >= 4 /\ SubSeq(disk.hdr, 1, 4) # <<78, 73, 88, 73>>)
           => reader = Err("UnsupportedFileType", SubSeq(disk.hdr, 1, 4))
      /\ (/\ Len(disk.hdr) >= 12 /\ SubSeq(disk.hdr, 1, 4) = <<78, 73, 88, 73>>
          /\ VersionField(disk.hdr) # <<1, 0, 0, 0>>)
           => reader = Err("UnsupportedVersion", VersionField(disk.hdr))

C9_Witness ==
    /\ reader.tag = "Err" /\ reader.kind = "UnsupportedVersion"
    /\ reader.data = <<1, 0, 0, 256>>

\* C10: once the Writer is gone, by finish or by drop, zstd's Encoder::finish has
\* run exactly once on its encoder.
C10_FinalizedOnce == wlife = "gone" => finishCalls = 1

\* the group one add call owes the stream: a file record for every entry of the
\* tree whose path starts with the prefix, in the tree's order, then the one
\* package record of the store path
RECURSIVE RetainedRecords(_, _)
RetainedRecords(files, prefix) ==
    IF files = <<>> THEN <<>>
    ELSE (IF /\ Len(prefix) <= Len(Head(files).path)
             /\ \A i \in 1 .. Len(prefix) : Head(files).path[i] = prefix[i]
          THEN <<Head(files).node \o <<0>> \o Head(files).path>>
          ELSE <<>>)
         \o RetainedRecords(Tail(files), prefix)

GroupOf(c) == RetainedRecords(c.files, c.filter_prefix) \o <<PackageRecord(c.path)>>

RECURSIVE GroupsOf(_)
GroupsOf(calls) == IF calls = <<>> THEN <<>> ELSE GroupOf(Head(calls)) \o GroupsOf(Tail(calls))

\* C11: every add that returns Ok appends exactly its group, the file records
\* of its retained entries followed by one package record for its store path;
\* and as long as every add returned Ok the stream is the concatenation of the
\* groups of the calls, so that every file record lies before the package record
\* of its own call and after the package record of the call before.
C11_GroupInvariant ==
    /\ [](addCalls = Len(adds) => disk.stream = GroupsOf(adds))
    /\ [][(addCalls' = addCalls + 1 /\ wresult' = "Ok")
            => /\ Len(adds') = Len(adds) + 1
               /\ disk'.stream = disk.stream \o GroupOf(adds'[Len(adds')])]_vars

C11_Witness ==
    /\ Len(adds) = 2 /\ addCalls = 2 /\ adds[1].path # adds[2].path
    /\ \E k \in 1 .. 2 :
          /\ Len(RetainedRecords(adds[k].files, adds[k].filter_prefix)) = 1
          /\ Len(adds[k].files) = 2
    /\ Len(disk.stream) >= 4

\* C12: when finish() fails to finalize the compressor, by the flush or by
\* Encoder::finish, the caller gets Err and the drop of the Writer that follows
\* neither runs Encoder::finish again nor panics; when the drop of a Writer
\* that was never finished fails to finalize, it panics.
C12_FinalizationPolicy ==
    [][/\ (Finish /\ disk'.frame # "finalized")
           => /\ wresult' = "Err" /\ writer' = "None"
              /\ finishCalls' <= finishCalls + 1
       /\ (Drop /\ writer = "Some" /\ disk'.frame # "finalized")
           => wresult' = "Panic"]_vars

C12_Witness ==
    /\ wlife = "gone" /\ wresult = "Err" /\ disk.frame = "broken" /\ finishCalls = 1
    /\ Len(disk.stream) >= 1

\* C13: no entry in found, in found_without_package or yielded comes from a
\* package record or is one, and no EntryParse error reports a package record:
\* a line that begins with p NUL is never handed to FileTreeEntry::decode.
C13_PackageNeverResult ==
    /\ \A v \in Resolved \cup Range(found_without_package) :
          /\ ~IsPackageRecord(disk.stream[v.src])
          /\ ~IsPackageRecord(v.entry.node \o <<0>> \o v.entry.path)
    /\ \A k \in DOMAIN yielded :
          yielded[k].tag = "Err" =>
            ~(yielded[k].kind = "EntryParse" /\ IsPackageRecord(yielded[k].data))

\* the line pattern `a` matches the package record of store path a-x, which the
\* scan went over after it had found an entry
C13_Witness ==
    /\ Ended /\ query.exact_pattern = RegexA
    /\ query.package_hash = None /\ query.package_name_pattern = None
    /\ Len(yielded) >= 1
    /\ \E i \in DOMAIN disk.stream : \E j \in DOMAIN disk.stream :
          /\ i < j /\ disk.stream[j] = PackageRecord(StorePathA)
          /\ disk.stream[i] = EncodeEntry(EntryA)
          /\ RegexIsMatch(RegexA, disk.stream[j], FALSE)

(***************************************************************************)
(* Query.run on its own, over the regex ASTs of a bounded depth.           *)
(***************************************************************************)
MaxDepth == 2

AstLeaves == {Lit(97), Dot, StartLine, EndLine}

RECURSIVE AstsOfDepth(_)
AstsOfDepth(d) ==
    IF d = 0 THEN AstLeaves
    ELSE AstLeaves
         \cup {Group(x) : x \in AstsOfDepth(d - 1)}
         \cup {Repetition(x) : x \in AstsOfDepth(d - 1)}
         \cup {Concat(<<x, l>>) : x \in AstsOfDepth(d - 1), l \in AstLeaves}
         \cup {Concat(<<l, x>>) : x \in AstsOfDepth(d - 1), l \in AstLeaves}
         \cup {Alternation(<<x, l>>) : x \in AstsOfDepth(d - 1), l \in AstLeaves}
         \cup {Alternation(<<l, x>>) : x \in AstsOfDepth(d - 1), l \in AstLeaves}

\* a user regex handed to Reader::query, run() not yet called
InitRewrite ==
    /\ NoWriter /\ NoReader
    /\ disk = [hdr |-> <<>>, stream |-> <<>>, frame |-> "none", readable |-> TRUE]
    /\ packagesQuery = [tag |-> "Absent"]
    /\ \E e \in AstsOfDepth(MaxDepth) : call = [tag |-> "run", exact_regex |-> e, ret |-> None]

\* Query::run on the regex
RunAlone ==
    /\ call.tag = "run" /\ call.ret = None
    /\ call' = [call EXCEPT !.ret = run(call.exact_regex, None, None)]
    /\ UNCHANGED <<packagesQuery, disk>>
    /\ UNCHANGED WriterVars
    /\ UNCHANGED ReaderVars

NextRewrite == RunAlone
SpecRewrite == InitRewrite /\ [][NextRewrite]_vars

\* the nodes of an AST in preorder, each with its kind, what it carries and the
\* number of its children
RECURSIVE Nodes(_)
RECURSIVE NodesOfAll(_)
NodesOfAll(asts) == IF asts = <<>> THEN <<>> ELSE Nodes(Head(asts)) \o NodesOfAll(Tail(asts))
Nodes(ast) ==
    CASE ast.kind \in {"Concat", "Alternation"} ->
           <<[kind |-> ast.kind, n |-> Len(ast.asts)]>> \o NodesOfAll(ast.asts)
      [] ast.kind \in {"Group", "Repetition"} ->
           <<[kind |-> ast.kind, n |-> 1]>> \o Nodes(ast.ast)
      [] OTHER -> <<ast>>

\* C14: the AST behind the search pattern has the nodes of the user regex, node
\* for node, except that every start-of-line assertion has become the literal
\* NUL; exact_pattern is the user regex itself.
C14_AnchorRewrite ==
    (call.tag = "run" /\ call.ret # None) =>
      /\ call.ret.exact_pattern = call.exact_regex
      /\ Len(Nodes(call.ret.pattern.ast)) = Len(Nodes(call.exact_regex))
      /\ \A i \in 1 .. Len(Nodes(call.exact_regex)) :
            IF Nodes(call.exact_regex)[i] = [kind |-> "Assertion", akind |-> "StartLine"]
            THEN Nodes(call.ret.pattern.ast)[i] = [kind |-> "Literal", c |-> 0]
            ELSE Nodes(call.ret.pattern.ast)[i] = Nodes(call.exact_regex)[i]

C14_Witness ==
    /\ call.tag = "run" /\ call.ret # None
    /\ call.exact_regex = Group(Alternation(<<Lit(97), StartLine>>))
    /\ call.ret.pattern.ast = Group(Alternation(<<Lit(97), Lit(0)>>))

\* the file records at positions lo+1 .. hi whose path the exact regex matches
MatchesIn(lo, hi) ==
    Cardinality({i \in lo + 1 .. hi :
                   /\ ~IsPackageRecord(disk.stream[i])
                   /\ DecodeEntry(disk.stream[i]) # None
                   /\ RegexIsMatch(query.exact_pattern, DecodeEntry(disk.stream[i]).path, FALSE)})

\* where the block that ends at record c began
BlockStart(c) ==
    IF {d \in cuts : d < c} = {} THEN 0
    ELSE CHOOSE d \in cuts : d < c /\ \A e \in cuts : e < c => e <= d

\* the largest number of matching file records in one of the decoded blocks
MaxMatchesOfABlock ==
    IF cuts = {} THEN 0
    ELSE CHOOSE n \in {MatchesIn(BlockStart(c), c) : c \in cuts} :
           \A c \in cuts : MatchesIn(BlockStart(c), c) <= n

\* C15 as stated: found and found_without_package each hold at most as many
\* entries as a single decoded block has matching file records.
C15_BoundedByOneBlock ==
    query # None =>
      /\ Len(found) <= MaxMatchesOfABlock
      /\ Len(found_without_package) <= MaxMatchesOfABlock

\* C15 amended: the entries held in found and found_without_package, together
\* with the entries already yielded, never outnumber the matching file records
\* among the records decoded so far.
C15_BoundedByDecoded ==
    query # None =>
      Len(found) + Len(found_without_package)
        + Cardinality({k \in DOMAIN yielded : yielded[k].tag = "Ok"})
      <= MatchesIn(0, consumed)

\* two entries wait in found that were decoded from different blocks, none of
\* which has more than one matching file record
C15_Witness ==
    /\ query # None /\ Len(found) >= 2 /\ MaxMatchesOfABlock = 1
    /\ \E c \in cuts : found[1].src <= c /\ c < found[2].src

\* a sequence of found entries lies in the order of the records on disk
InDiskOrder(entries) ==
    \A i, j \in DOMAIN entries : i < j => entries[i].src < entries[j].src

\* C16: a refill (a next() that finds found empty) leaves its results in found
\* in on-disk order; next() hands out the newest entry of found, and while
\* found holds an entry no block is decoded, so the results of one refill
\* come out in reverse on-disk order before any result of a later refill.
C16_DeliveryOrder ==
    [][Len(yielded') = Len(yielded) + 1 =>
         /\ found # <<>> =>
              /\ last' = [tag |-> "Ok", v |-> found[Len(found)]]
              /\ found' = SubSeq(found, 1, Len(found) - 1)
              /\ consumed' = consumed /\ cuts' = cuts
              /\ found_without_package' = found_without_package
         /\ (found = <<>> /\ last'.tag = "Ok") =>
              /\ consumed' > consumed
              /\ InDiskOrder(Append(found', last'.v))]_vars

\* one refill gave two results; they came out newest first and the iteration
\* ended after them
C16_Witness ==
    /\ Ended /\ Len(yielded) = 2 /\ found = <<>>
    /\ yielded[1].tag = "Ok" /\ yielded[2].tag = "Ok"
    /\ yielded[1].v.src > yielded[2].v.src
    /\ \A c \in cuts : c < yielded[2].v.src \/ c >= yielded[1].v.src

(***************************************************************************)
(* nixpkgs.rs: the stream of store paths read from `nix-env --xml`.  The   *)
(* XML reader is a list of events still to come and the result it ends on, *)
(* which it repeats on every later call: EndDocument or an error.          *)
(***************************************************************************)
MaxEvents == 3
MaxCalls == 4

\* <item>, with or without attrPath; <output>, with or without name, and with
\* a path that is absent, not a store path, or a store path; </item>; any
\* other event
XmlEvents ==
    [kind : {"StartItem"}, attrPath : BOOLEAN]
      \cup [kind : {"StartOutput"}, name : BOOLEAN, path : {"absent", "invalid", "valid"}]
      \cup {[kind |-> "EndItem"], [kind |-> "Other"]}

ParserErr(kind) == [tag |-> "Err", kind |-> kind]

\* the result of next_err and the parser it leaves behind
Parsed(res, events, current_item, ends) ==
    [res |-> res, parser |-> [events |-> events, current_item |-> current_item, ends |-> ends]]

StartItemEvent(e, rest, p) ==
    IF p.current_item THEN Parsed(ParserErr("ParentNotAllowed"), rest, p.current_item, p.ends)
    ELSE IF ~e.attrPath THEN Parsed(ParserErr("MissingAttribute"), rest, p.current_item, p.ends)
    ELSE [continue |-> TRUE, parser |-> [events |-> rest, current_item |-> TRUE, ends |-> p.ends]]

StartOutputEvent(e, rest, p, at) ==
    IF ~p.current_item THEN Parsed(ParserErr("MissingParent"), rest, p.current_item, p.ends)
    ELSE IF ~e.name THEN Parsed(ParserErr("MissingAttribute"), rest, p.current_item, p.ends)
    ELSE IF e.path = "absent" THEN Parsed(ParserErr("MissingAttribute"), rest, p.current_item, p.ends)
    ELSE IF e.path = "invalid" THEN Parsed(ParserErr("InvalidStorePath"), rest, p.current_item, p.ends)
    ELSE Parsed([tag |-> "Ok", v |-> at], rest, p.current_item, p.ends)

EndItemEvent(rest, p) ==
    IF ~p.current_item THEN Parsed(ParserErr("MissingStartTag"), rest, p.current_item, p.ends)
    ELSE [continue |-> TRUE, parser |-> [events |-> rest, current_item |-> FALSE, ends |-> p.ends]]

OneEvent(e, rest, p, at) ==
    IF e.kind = "StartItem" THEN StartItemEvent(e, rest, p)
    ELSE IF e.kind = "StartOutput" THEN StartOutputEvent(e, rest, p, at)
    ELSE IF e.kind = "EndItem" THEN EndItemEvent(rest, p)
    ELSE [continue |-> TRUE, parser |-> [events |-> rest, current_item |-> p.current_item, ends |-> p.ends]]

RECURSIVE next_err(_, _)
NextErrAfter(step, total) ==
    IF "continue" \in DOMAIN step THEN next_err(step.parser, total) ELSE step

\* PackagesParser::next_err; a store path is named by the index of its
\* <output> event among the `total` events of the document
next_err(p, total) ==
    IF p.events = <<>>
    THEN IF p.ends = "XmlError" THEN Parsed(ParserErr("XmlError"), p.events, p.current_item, p.ends)
         ELSE Parsed(None, p.events, p.current_item, p.ends)
    ELSE NextErrAfter(OneEvent(Head(p.events), Tail(p.events), p, total - Len(p.events) + 1), total)

\* Iterator::next of PackagesParser: the item (None at the end) and the parser
PackagesParser_next(p, total) == next_err(p, total)

\* check_error: None, or the error, or the panic of `expect`; together with
\* the child it leaves behind
check_error(child, wait_ok, read_ok) ==
    IF ~wait_ok THEN [err |-> [tag |-> "Err", kind |-> "Io"], child |-> child]
    ELSE IF child.success
    THEN [err |-> None, child |-> [child EXCEPT !.waits = @ + 1]]
    ELSE IF ~child.stderr
    THEN [err |-> [tag |-> "Panic"], child |-> [child EXCEPT !.waits = @ + 1]]
    ELSE IF ~read_ok
    THEN [err |-> [tag |-> "Err", kind |-> "Io"],
          child |-> [child EXCEPT !.waits = @ + 1, !.stderr = FALSE]]
    ELSE [err |-> [tag |-> "Err", kind |-> "Command"],
          child |-> [child EXCEPT !.waits = @ + 1, !.stderr = FALSE]]

\* v.map_err(|e| self.check_error().unwrap_or(Error::from(e))), the parser put back
QueryItem(q, r, ce) ==
    [item |-> IF ce.err = None THEN [tag |-> "Err", kind |-> "Parse"] ELSE ce.err,
     q |-> [q EXCEPT !.parser = r.parser, !.child = ce.child]]

\* or_else: the parser is gone and check_error decides
QueryEnd(q, ce) ==
    [item |-> ce.err, q |-> [q EXCEPT !.parser = None, !.child = ce.child]]

QueryParsed(q, r, wait_ok, read_ok) ==
    IF r.res = None THEN QueryEnd(q, check_error(q.child, wait_ok, read_ok))
    ELSE IF r.res.tag = "Ok" THEN [item |-> r.res, q |-> [q EXCEPT !.parser = r.parser]]
    ELSE QueryItem(q, r, check_error(q.child, wait_ok, read_ok))

\* Iterator::next of PackagesQuery
PackagesQuery_next(q, wait_ok, read_ok) ==
    IF q.parser = None THEN [item |-> None, q |-> q]
    ELSE QueryParsed(q, PackagesParser_next(q.parser, q.total), wait_ok, read_ok)

\* query_packages: the child has been spawned with its pipes, the parser
\* reads its stdout; nothing has been returned yet
InitPackages ==
    /\ NoWriter /\ NoReader
    /\ disk = [hdr |-> <<>>, stream |-> <<>>, frame |-> "none", readable |-> TRUE]
    /\ call = [tag |-> "Nothing"]
    /\ \E events \in SeqsUpTo(XmlEvents, MaxEvents), ends \in {"EndDocument", "XmlError"},
          success \in BOOLEAN :
         packagesQuery =
           [tag |-> "Some",
            parser |-> [events |-> events, current_item |-> FALSE, ends |-> ends],
            total |-> Len(events), doc |-> events,
            child |-> [success |-> success, stderr |-> TRUE, waits |-> 0],
            out |-> <<>>, waitsAt |-> <<>>, status |-> "running"]

\* one call of next() on the PackagesQuery
PackagesNext ==
    /\ packagesQuery.tag = "Some" /\ packagesQuery.status = "running"
    /\ Len(packagesQuery.out) < MaxCalls
    /\ \E wait_ok \in BOOLEAN, read_ok \in BOOLEAN :
         LET o == PackagesQuery_next(packagesQuery, wait_ok, read_ok)
         IN  packagesQuery' =
               [o.q EXCEPT !.out = Append(@, o.item),
                           !.waitsAt = Append(@, o.q.child.waits),
                           !.status = IF o.item # None /\ o.item.tag = "Panic"
                                      THEN "panicked" ELSE @]
    /\ UNCHANGED <<call>>
    /\ UNCHANGED <<disk>>
    /\ UNCHANGED WriterVars
    /\ UNCHANGED ReaderVars

NextPackages == PackagesNext
SpecPackages == InitPackages /\ [][NextPackages]_vars

\* C17: the items next() returns are store paths, then either None or one
\* error, then None for ever; no call panics; when the child failed the error
\* is the Command error (or the IO error of waiting for it); a call made
\* after the parser is gone does not wait on the child.
C17_StreamContract ==
    packagesQuery.tag = "Some" =>
      /\ \A i \in DOMAIN packagesQuery.out :
           /\ packagesQuery.out[i] # None => packagesQuery.out[i].tag # "Panic"
           /\ \A j \in DOMAIN packagesQuery.out :
                (i < j /\ (packagesQuery.out[i] = None \/ packagesQuery.out[i].tag # "Ok"))
                  => packagesQuery.out[j] = None
           /\ (packagesQuery.out[i] # None /\ packagesQuery.out[i].tag = "Err"
                 /\ ~packagesQuery.child.success)
                => packagesQuery.out[i].kind \in {"Command", "Io"}
           /\ (i > 1 /\ packagesQuery.out[i - 1] = None)
                => packagesQuery.waitsAt[i] = packagesQuery.waitsAt[i - 1]

\* C18: next() returns None only when the decoder has nothing left and found
\* is empty, and a next() that decoded blocks and returns None has decoded
\* every block: a refill that ends without an error either left an entry to
\* return or reached the end of the input.
C18_FillBufPostcondition ==
    /\ [](query # None /\ last = None => input = <<>> /\ found = <<>>)
    /\ [][(Len(yielded') = Len(yielded) /\ last' = None /\ consumed' # consumed)
            => input' = <<>> /\ found' = <<>>]_vars

\* the first decoded block held no matching file record, and the same next()
\* went on to a later block and returned an entry from it
C18_Witness ==
    /\ Ended /\ input = <<>> /\ found = <<>>
    /\ \E c \in cuts : c >= 1 /\ BlockStart(c) = 0 /\ MatchesIn(0, c) = 0
    /\ Len(yielded) >= 1 /\ yielded[1].tag = "Ok"

(***************************************************************************)
(* find_package on its own: the calls fill_buf makes on one block, with    *)
(* the cache carried from call to call.                                    *)
(***************************************************************************)
MaxFinds == 3

\* where record i of a block begins and where its line ends
RECURSIVE RecStart(_, _)
RecStart(records, i) == IF i = 1 THEN 0 ELSE RecStart(records, i - 1) + Len(records[i - 1]) + 1
RecEnd(records, i) == RecStart(records, i) + Len(records[i]) + 1

\* the offsets find_package is called with: 0 and the ends of the lines
ItemEnds(records) == {0} \cup {RecEnd(records, i) : i \in DOMAIN records}

\* which branch of find_package answers
AnswerOf(c, item_end) ==
    IF c.cached_package # None /\ item_end < c.cached_package.end THEN "cache"
    ELSE IF c.no_more_package THEN "memo" ELSE "scan"

\* a decoded block, the package cache empty, no call made yet
InitFindPackage ==
    /\ NoWriter /\ NoReader
    /\ disk = [hdr |-> <<>>, stream |-> <<>>, frame |-> "none", readable |-> TRUE]
    /\ packagesQuery = [tag |-> "Absent"]
    /\ \E records \in SeqsUpTo(FileRecords \cup PackageRecords \cup {CorruptPackageRecord}, MaxRecs) :
         call = [tag |-> "find_package", records |-> records, block |-> BlockOf(records),
                 c |-> Cache(None, FALSE), item_end |-> 0, res |-> None,
                 answer |-> "none", calls |-> 0]

\* one call of find_package, at an offset not before the previous one
FindPackage ==
    /\ call.tag = "find_package" /\ call.calls < MaxFinds
    /\ \E item_end \in ItemEnds(call.records) :
         /\ item_end >= call.item_end
         /\ LET o == find_package(run(RegexA, None, None), call.block, item_end, call.c)
            IN  call' = [call EXCEPT !.c = o.c, !.item_end = item_end, !.res = o.res,
                                     !.answer = AnswerOf(call.c, item_end),
                                     !.calls = @ + 1]
    /\ UNCHANGED <<packagesQuery>>
    /\ UNCHANGED <<disk>>
    /\ UNCHANGED WriterVars
    /\ UNCHANGED ReaderVars

NextFindPackage == FindPackage
SpecFindPackage == InitFindPackage /\ [][NextFindPackage]_vars

\* the forward scan without a cache: the first package record that begins at
\* or after item_end, parsed, with the end of its line
ForwardScan(records, item_end) ==
    LET later == {i \in DOMAIN records :
                    IsPackageRecord(records[i]) /\ RecStart(records, i) >= item_end}
    IN  IF later = {} THEN None
        ELSE LET json == SubSeq(records[Min(later)], 3, Len(records[Min(later)]))
             IN  IF FromJson(json) = None THEN Err("StorePathParse", json)
                 ELSE Some2(StorePathOf(FromJson(json)), RecEnd(records, Min(later)))

\* C19: every call of find_package within one block, made at offsets that
\* never go back, returns what the forward scan without a cache returns.
C19_FindPackageUncached ==
    (call.tag = "find_package" /\ call.calls >= 1)
      => call.res = ForwardScan(call.records, call.item_end)

\* the cache answered a call at an offset past the start of the block, and
\* an earlier call had moved past a first package record
C19_Witness ==
    /\ call.tag = "find_package" /\ call.calls = MaxFinds
    /\ call.answer = "cache" /\ call.item_end > 0 /\ call.res.tag = "Some"
    /\ \E i \in DOMAIN call.records :
         IsPackageRecord(call.records[i]) /\ RecEnd(call.records, i) <= call.item_end

(***************************************************************************)
(* next_matching_line on its own: a matcher, a buffer of lines and a start *)
(* offset on a line boundary, as fill_buf and find_package pass them.      *)
(***************************************************************************)
\* the matchers of a query, the matcher of the unit test (^p), and one whose
\* fast line regex (/) finds candidates that the pattern (/a) rejects
Matchers ==
    {run(r, None, None).pattern : r \in Regexes}
      \cup {run(RegexA, None, None).package_entry_pattern,
            RegexMatcher(Concat(<<StartLine, Lit(CH_p)>>)),
            RegexMatcher(Concat(<<Lit(47), Lit(97)>>))}

\* the offsets just after a newline, and 0
LineStarts(buf) == {0} \cup {i \in 1 .. Len(buf) : buf[i] = NL}

\* a buffer of records, with or without the newline of its last line
Buffers ==
    {BlockOf(records) : records \in SeqsUpTo(FileRecords \cup PackageRecords, MaxRecs)}
      \cup {Slice(BlockOf(records), 0, Len(BlockOf(records)) - 1) :
              records \in SeqsUpTo(FileRecords \cup PackageRecords, MaxRecs) \ {<<>>}}

InitMatchingLine ==
    /\ NoWriter /\ NoReader
    /\ disk = [hdr |-> <<>>, stream |-> <<>>, frame |-> "none", readable |-> TRUE]
    /\ packagesQuery = [tag |-> "Absent"]
    /\ \E matcher \in Matchers, buf \in Buffers :
         \E start \in LineStarts(buf) :
           call = [tag |-> "next_matching_line", matcher |-> matcher, buf |-> buf,
                   start |-> start, ret |-> [tag |-> "Pending"]]

\* the call of next_matching_line
MatchingLine ==
    /\ call.tag = "next_matching_line" /\ call.ret.tag = "Pending"
    /\ call' = [call EXCEPT !.ret = next_matching_line(call.matcher, call.buf, call.start)]
    /\ UNCHANGED <<packagesQuery>>
    /\ UNCHANGED <<disk>>
    /\ UNCHANGED WriterVars
    /\ UNCHANGED ReaderVars

NextMatchingLine == MatchingLine
SpecMatchingLine == InitMatchingLine /\ [][NextMatchingLine]_vars

\* the lines of a buffer begin at 0 and after every newline, unless nothing
\* follows; a line ends after its newline or at the end of the buffer
LinesOf(buf) == {s \in LineStarts(buf) : s < Len(buf)}
LineEndOf(buf, s) ==
    IF memchr(NL, buf, s) = None THEN Len(buf) ELSE s + memchr(NL, buf, s).v + 1

\* the first line at or after start whose isolated text the matcher accepts
FirstMatchingLine(matcher, buf, start) ==
    LET hits == {s \in LinesOf(buf) :
                   s >= start /\ is_match(matcher, Slice(buf, s, LineEndOf(buf, s)))}
    IN  IF hits = {} THEN None
        ELSE [tag |-> "Some", start |-> Min(hits), end |-> LineEndOf(buf, Min(hits))]

\* C20: next_matching_line returns the whole span of the first line at or
\* after start that the matcher accepts, and None when no line does.
C20_WholeLine ==
    (call.tag = "next_matching_line" /\ call.ret.tag # "Pending")
      => call.ret = FirstMatchingLine(call.matcher, call.buf, call.start)

\* C21: a matching file record whose block ends before the package record
\* that owns it waits in found_without_package, exactly once and nowhere
\* else, for as long as no block with a package record has been decoded, over
\* however many blocks that takes; once that block has been decoded the
\* record is held or has been yielded exactly once, paired with that first
\* package record (or is gone, when the query's filters reject the package).
C21_GroupAcrossBlocks ==
    (query # None /\ status = "running") =>
      \A i \in 1 .. consumed :
        LET o == OwnerIndex(disk.stream, i)
            waiting == {k \in DOMAIN found_without_package : found_without_package[k].src = i}
            held == {k \in DOMAIN found : found[k].src = i}
            given == {k \in DOMAIN yielded : yielded[k].tag = "Ok" /\ yielded[k].v.src = i}
        IN  (/\ MatchesIn(i - 1, i) = 1
             /\ \E c \in cuts : i <= c /\ (o = 0 \/ c < o))
            => IF o = 0 \/ o > consumed
               THEN Cardinality(waiting) = 1 /\ held = {} /\ given = {}
               ELSE IF PassesFilters(query, StorePathOf(FromJson(Slice(disk.stream[o], 2, Len(disk.stream[o])))))
               THEN /\ waiting = {}
                    /\ Cardinality(held) + Cardinality(given) = 1
                    /\ \A k \in held : PackageRecord(found[k].pkg) = disk.stream[o]
                    /\ \A k \in given : PackageRecord(yielded[k].v.pkg) = disk.stream[o]
               ELSE waiting = {} /\ held = {} /\ given = {}

\* two matching file records lay in two consecutive blocks without a package
\* record, the package record came in a third block, and both were yielded
\* with it
C21_Witness ==
    /\ Ended /\ Len(yielded) = 2
    /\ yielded[1].tag = "Ok" /\ yielded[2].tag = "Ok"
    /\ yielded[1].v.pkg = yielded[2].v.pkg
    /\ \E c1 \in cuts, c2 \in cuts :
         /\ yielded[2].v.src <= c1 /\ c1 < yielded[1].v.src
         /\ yielded[1].v.src <= c2 /\ c2 < OwnerIndex(disk.stream, yielded[1].v.src)
         /\ OwnerIndex(disk.stream, yielded[2].v.src) = OwnerIndex(disk.stream, yielded[1].v.src)

\* C22: the scan of a block makes progress: the line next_matching_line
\* returns ends after the offset the scan called it with, so that `pos`
\* strictly increases from one processed line to the next.
C22_ScanAdvances ==
    (call.tag = "next_matching_line" /\ call.ret.tag = "Some") => call.ret.end > call.start

\* C23 as stated: the query reports EntryParse for a file record only if the
\* package record that owns it, wherever it lies, passes the filters (or the
\* record has no package record after it): there are no more EntryParse
\* errors than such records.
C23_RejectedNeverDecoded ==
    query # None =>
      Cardinality({k \in DOMAIN yielded :
                     yielded[k] = Err("EntryParse", CorruptFileRecord)})
        <= Cardinality({i \in 1 .. consumed :
              /\ disk.stream[i] = CorruptFileRecord
              /\ LET o == OwnerIndex(disk.stream, i)
                 IN  o = 0 \/ PassesFilters(query,
                        StorePathOf(FromJson(Slice(disk.stream[o], 2, Len(disk.stream[o])))))})

\* C23 amended: the query reports EntryParse for a file record only if the
\* package record that owns it passes the filters or lies in a later block
\* (or the record has no package record after it): there are no more
\* EntryParse errors than such records.
C23_RejectedInBlockNeverDecoded ==
    query # None =>
      Cardinality({k \in DOMAIN yielded :
                     yielded[k] = Err("EntryParse", CorruptFileRecord)})
        <= Cardinality({i \in 1 .. consumed :
              /\ disk.stream[i] = CorruptFileRecord
              /\ LET o == OwnerIndex(disk.stream, i)
                 IN  \/ o = 0
                     \/ \E c \in cuts : i <= c /\ c < o
                     \/ PassesFilters(query,
                          StorePathOf(FromJson(Slice(disk.stream[o], 2, Len(disk.stream[o])))))})

\* the line pattern matched a file record that does not decode, its package
\* record lay in the same block and failed the filters, and the iteration
\* ended without an error
C23_Witness ==
    /\ Ended /\ yielded = <<>> /\ query.pattern = RegexMatcher(RegexA)
    /\ Len(disk.stream) >= 2 /\ disk.stream[1] = CorruptFileRecord
    /\ disk.stream[2] \in PackageRecords
    /\ ~PassesFilters(query, StorePathOf(FromJson(Slice(disk.stream[2], 2, Len(disk.stream[2])))))
    /\ \A c \in cuts : c >= 2

\* the nesting of <item> elements after a prefix of the document: how many
\* are open, and at which depth the item lies whose start the parser accepted
\* (0: none); wrong: an </item> came with no <item> open
RECURSIVE Nesting(_, _)
Nesting(doc, n) ==
    IF n = 0 THEN [depth |-> 0, accepted |-> 0, wrong |-> FALSE]
    ELSE LET b == Nesting(doc, n - 1)
             e == doc[n]
         IN  IF e.kind = "StartItem"
             THEN [b EXCEPT !.depth = @ + 1,
                            !.accepted = IF @ = 0 /\ e.attrPath THEN b.depth + 1 ELSE @]
             ELSE IF e.kind = "EndItem"
             THEN IF b.depth = 0 THEN [b EXCEPT !.wrong = TRUE]
                  ELSE [b EXCEPT !.depth = @ - 1,
                                 !.accepted = IF @ = b.depth THEN 0 ELSE @]
             ELSE b

\* C24: on a document whose <item> elements nest properly, current_item is
\* Some exactly while an item whose start element the parser accepted has not
\* met its end element.
C24_NestingProtocol ==
    (packagesQuery.tag = "Some" /\ packagesQuery.parser # None) =>
      LET n == packagesQuery.total - Len(packagesQuery.parser.events)
      IN  ~Nesting(packagesQuery.doc, n).wrong
            => packagesQuery.parser.current_item = (Nesting(packagesQuery.doc, n).accepted # 0)

\* C25: after next() has returned an error every later call returns None, no
\* call panics, and check_error has waited at most once on a child that
\* exited unsuccessfully.
C25_QuietAfterError ==
    packagesQuery.tag = "Some" =>
      /\ packagesQuery.status # "panicked"
      /\ \A i \in DOMAIN packagesQuery.out : \A j \in DOMAIN packagesQuery.out :
           (i < j /\ packagesQuery.out[i].tag = "Err") => packagesQuery.out[j] = None
      /\ ~packagesQuery.child.success => packagesQuery.child.waits <= 1

====
